---- MODULE Spec2Model ----
(***************************************************************************)
(* Model of the gh_pre-commit utilities of bash_config:                    *)
(*   linter_stats_to_json.py   raw linter statistics -> JSON dataset       *)
(*   generate_linter_report.py dataset -> markdown reports                 *)
(*   precommit_tool_finder.py  locating pre-commit managed executables     *)
(*                                                                         *)
(* Text is modelled as a sequence of atoms.  An atom is a TLA+ string that *)
(* stands for one character (a digit, a sign, a blank, a tab, a newline)   *)
(* or for an unbreakable run of non-blank characters (a word).  Python's   *)
(* str methods are modelled on these sequences character by character.    *)
(***************************************************************************)
EXTENDS Integers, Sequences, FiniteSets, TLC

VARIABLES
    raw_dir,        \* the raw stats directory: linter -> [exists, content]
    linter_data,    \* the dataset {"linters": {...}} written by the converter
    stats_pc,       \* position of the converter: "idle" | "start" | "done"
    combined_report,    \* the combined report, a sequence of lines
    low_risk_report,    \* the low risk report, a sequence of lines
    report_pc,      \* position of the report generator's rendering step
    project,        \* what the locator finds on disk: .git, the config file,
                    \* the cache database, the existing executables
    tool_args,      \* get_tool_path's arguments: repo_pattern, tool_name
    python_version, \* get_tool_path's local, <<>> for None
    tool_version,   \* get_tool_path's local, <<>> for None
    repo_path,      \* get_tool_path's local, <<>> for None
    tool_result,    \* how get_tool_path ended: pending, raise, none or path
    loc_trace,      \* the steps get_tool_path has taken, in order
    loc_pc,         \* position of get_tool_path
    main_fs,        \* what the report generator's main finds on disk: the
                    \* project path, the collection script, the output dir;
                    \* and the exit code of the script once it has run
    main_fs0,       \* the disk as it was when main started
    main_trace,     \* the pipeline steps main has started, in order
    main_pc,        \* position of main
    exit_code       \* main's exit code, <<>> while it runs

stats_vars == <<raw_dir, stats_pc>>
report_vars == <<combined_report, low_risk_report, report_pc>>
locator_vars == <<project, tool_args, python_version, tool_version, repo_path,
                  tool_result, loc_trace, loc_pc>>

main_vars == <<main_fs, main_fs0, main_trace, main_pc, exit_code>>

vars == <<raw_dir, linter_data, stats_pc, combined_report, low_risk_report,
          report_pc, project, tool_args, python_version, tool_version,
          repo_path, tool_result, loc_trace, loc_pc, main_fs, main_fs0,
          main_trace, main_pc, exit_code>>

(***************************************************************************)
(* Bounds of the model.                                                    *)
(***************************************************************************)
\* longest single-line raw file, in atoms
MaxLineLen == 6
\* longest multi-line raw file, in atoms (newlines included)
MaxRawLen == 7
\* most records in a dataset handed to the report generator
MaxRecords == 3
\* most lines of a freely composed .pre-commit-config.yaml
MaxConfigLines == 5

(***************************************************************************)
(* Python str helpers.                                                     *)
(***************************************************************************)
\* the characters str.strip() and str.split(None) treat as blanks
Whitespace == {" ", "\t", "\n"}

\* the decimal digits int() accepts, with their values
DigitValue == [c \in {"0", "1", "2", "3", "4", "5", "6", "7", "8", "9"} |->
    CASE c = "0" -> 0 [] c = "1" -> 1 [] c = "2" -> 2 [] c = "3" -> 3
      [] c = "4" -> 4 [] c = "5" -> 5 [] c = "6" -> 6 [] c = "7" -> 7
      [] c = "8" -> 8 [] c = "9" -> 9]

\* the texts of at most n atoms of S
SeqsUpTo(S, n) == UNION {[1..k -> S] : k \in 0..n}

\* the value None
None == [none |-> TRUE]

\* the text of a sequence of atoms as one string
RECURSIVE Flatten(_)
Flatten(s) == IF s = <<>> THEN "" ELSE Head(s) \o Flatten(Tail(s))

RECURSIVE lstrip(_)
lstrip(s) ==
    IF s = <<>> \/ Head(s) \notin Whitespace THEN s ELSE lstrip(Tail(s))

RECURSIVE rstrip(_)
rstrip(s) ==
    IF s = <<>> \/ s[Len(s)] \notin Whitespace THEN s
    ELSE rstrip(SubSeq(s, 1, Len(s) - 1))

\* str.strip()
strip(s) == rstrip(lstrip(s))

\* str.split(sep): every occurrence of sep splits, empty fields are kept
RECURSIVE split_sep(_, _)
split_sep(s, sep) ==
    IF \A i \in 1..Len(s) : s[i] # sep THEN <<s>>
    ELSE LET i == CHOOSE k \in 1..Len(s) :
                      s[k] = sep /\ \A j \in 1..(k - 1) : s[j] # sep
         IN <<SubSeq(s, 1, i - 1)>> \o split_sep(SubSeq(s, i + 1, Len(s)), sep)

\* str.split(None, maxsplit): runs of blanks separate, at most maxsplit
\* splits are made and the last part is the remainder, leading blanks removed
RECURSIVE split_ws(_, _)
split_ws(s, maxsplit) ==
    LET t == lstrip(s) IN
    IF t = <<>> THEN <<>>
    ELSE IF maxsplit = 0 THEN <<t>>
    ELSE LET n == IF \A i \in 1..Len(t) : t[i] \notin Whitespace THEN Len(t)
                  ELSE (CHOOSE k \in 1..Len(t) :
                            t[k] \in Whitespace
                            /\ \A j \in 1..(k - 1) : t[j] \notin Whitespace) - 1
         IN <<SubSeq(t, 1, n)>> \o split_ws(SubSeq(t, n + 1, Len(t)), maxsplit - 1)

\* int(s) succeeds: blanks around, an optional sign, then one or more digits
int_ok(s) ==
    LET t == strip(s)
        d == IF t # <<>> /\ Head(t) \in {"-", "+"} THEN Tail(t) ELSE t
    IN d # <<>> /\ \A i \in 1..Len(d) : d[i] \in DOMAIN DigitValue

RECURSIVE digits_value(_)
digits_value(d) ==
    IF d = <<>> THEN 0
    ELSE 10 * digits_value(SubSeq(d, 1, Len(d) - 1)) + DigitValue[d[Len(d)]]

\* int(s), where int_ok(s)
int_value(s) ==
    LET t == strip(s) IN
    IF Head(t) = "-" THEN 0 - digits_value(Tail(t))
    ELSE IF Head(t) = "+" THEN digits_value(Tail(t))
    ELSE digits_value(t)

\* iteration over an open text file: the lines, each with its newline
RECURSIVE file_lines(_)
file_lines(s) ==
    IF s = <<>> THEN <<>>
    ELSE IF \A i \in 1..Len(s) : s[i] # "\n" THEN <<s>>
    ELSE LET i == CHOOSE k \in 1..Len(s) :
                      s[k] = "\n" /\ \A j \in 1..(k - 1) : s[j] # "\n"
         IN <<SubSeq(s, 1, i)>> \o file_lines(SubSeq(s, i + 1, Len(s)))

(***************************************************************************)
(* linter_stats_to_json.py                                                 *)
(***************************************************************************)
Linters == {"flake8", "ruff", "mypy"}

MYPY_DESCRIPTIONS ==
    [c \in {"no-untyped-def", "attr-defined", "arg-type", "import-not-found",
            "var-annotated", "union-attr", "import-untyped", "assignment",
            "call-overload", "return-value", "type-arg", "misc"} |->
     CASE c = "no-untyped-def" -> "Function is missing a type annotation"
       [] c = "attr-defined" -> "Attribute does not exist on type"
       [] c = "arg-type" -> "Argument has incompatible type"
       [] c = "import-not-found" -> "Cannot find implementation or library stub"
       [] c = "var-annotated" -> "Variable needs type annotation"
       [] c = "union-attr" -> "Item 'None' of 'Optional[...]' has no attribute"
       [] c = "import-untyped" -> "Import is not typed or missing type hints"
       [] c = "assignment" -> "Incompatible types in assignment"
       [] c = "call-overload" -> "No overload variant matches argument types"
       [] c = "return-value" -> "Incompatible return value type"
       [] c = "type-arg" -> "Type argument is incompatible"
       [] c = "misc" -> "Miscellaneous type error"]

\* separator = None stands for "split on blanks"
NoSeparator == ""

parse_line_with_count_code_desc(line0, linter_name, separator) ==
    LET line == strip(line0) IN
    IF line = <<>> THEN None
    ELSE LET parts == IF separator # NoSeparator THEN split_sep(line, separator)
                      ELSE split_ws(line, 2)
         IN IF Len(parts) < 2 THEN None
            ELSE LET count == strip(parts[1])
                     code == strip(parts[2])
                     description == IF Len(parts) > 2
                                    THEN Flatten(strip(parts[3])) ELSE "-"
                 IN IF int_ok(count)
                    THEN [linter |-> linter_name, count |-> int_value(count),
                          code |-> Flatten(code), description |-> description]
                    ELSE None

\* parse_lines with a malformed line ending the loop instead of being skipped
RECURSIVE parse_lines_abort(_, _, _)
parse_lines_abort(lines, linter_name, separator) ==
    IF lines = <<>> THEN <<>>
    ELSE LET linter_error ==
                 parse_line_with_count_code_desc(Head(lines), linter_name, separator)
         IN IF linter_error = None /\ strip(Head(lines)) # <<>> THEN <<>>
            ELSE (IF linter_error # None THEN <<linter_error>> ELSE <<>>)
                 \o parse_lines_abort(Tail(lines), linter_name, separator)

\* the loop body of parse_flake8 / parse_ruff over the lines of the file
RECURSIVE parse_lines(_, _, _)
parse_lines(lines, linter_name, separator) ==
    IF lines = <<>> THEN <<>>
    ELSE LET linter_error ==
                 parse_line_with_count_code_desc(Head(lines), linter_name, separator)
         IN (IF linter_error # None THEN <<linter_error>> ELSE <<>>)
            \o parse_lines(Tail(lines), linter_name, separator)

parse_flake8(file) ==
    IF ~file.exists THEN <<>>
    ELSE parse_lines(file_lines(file.content), "flake8", NoSeparator)

parse_ruff(file) ==
    IF ~file.exists THEN <<>>
    ELSE parse_lines(file_lines(file.content), "ruff", "\t")

\* parse_mypy_line done by the parser of the other two linters, which takes
\* the description from the line
parse_mypy_line_generic(line0) ==
    LET r == parse_line_with_count_code_desc(line0, "mypy", NoSeparator)
    IN IF r = None THEN <<>> ELSE <<r>>

\* one iteration of the loop of parse_mypy
parse_mypy_line(line0) ==
    LET line == strip(line0) IN
    IF line = <<>> THEN <<>>
    ELSE LET parts == split_ws(line, 1) IN
         IF Len(parts) = 2
         THEN LET count_str == parts[1]
                  error_code == Flatten(strip(parts[2]))
              IN IF int_ok(count_str)
                 THEN <<[linter |-> "mypy", count |-> int_value(count_str),
                         code |-> error_code,
                         description |->
                             IF error_code \in DOMAIN MYPY_DESCRIPTIONS
                             THEN MYPY_DESCRIPTIONS[error_code] ELSE "-"]>>
                 ELSE <<>>
         ELSE <<>>

RECURSIVE parse_mypy_lines(_)
parse_mypy_lines(lines) ==
    IF lines = <<>> THEN <<>>
    ELSE parse_mypy_line(Head(lines)) \o parse_mypy_lines(Tail(lines))

parse_mypy(file) ==
    IF ~file.exists THEN <<>>
    ELSE parse_mypy_lines(file_lines(file.content))

\* the value of linter_data once convert_stats_to_json has parsed the files
converted(dir) ==
    [linters |-> [flake8 |-> parse_flake8(dir["flake8"]),
                  ruff |-> parse_ruff(dir["ruff"]),
                  mypy |-> parse_mypy(dir["mypy"])]]

\* linter_data before the converter has run
NoData == [linters |-> [flake8 |-> <<>>, ruff |-> <<>>, mypy |-> <<>>]]

(***************************************************************************)
(* precommit_tool_finder.py                                                *)
(* The text of the config file, of a repo pattern and of a repo URL is a   *)
(* sequence of atoms as above; `x in line` and grep's and LIKE's matching  *)
(* are taken at the granularity of atoms.                                  *)
(***************************************************************************)
\* pattern in text: the atoms of pattern occur in text, adjacent and in order
contains(text, pattern) ==
    \E i \in 1..(Len(text) - Len(pattern) + 1) :
        SubSeq(text, i, i + Len(pattern) - 1) = pattern

\* the line grep prints between two groups of context
GrepGroupSeparator == <<"--">>

\* line i of the file is printed by grep -A n: it matches, or one of the n
\* lines before it does
grep_selects(lines, pattern, n, i) ==
    \E j \in 1..Len(lines) : contains(lines[j], pattern) /\ j <= i /\ i <= j + n

\* the output of grep -A n on the first k lines of the file
RECURSIVE grep_output(_, _, _, _)
grep_output(lines, pattern, n, k) ==
    IF k = 0 THEN <<>>
    ELSE LET before == grep_output(lines, pattern, n, k - 1) IN
         IF ~grep_selects(lines, pattern, n, k) THEN before
         ELSE IF before # <<>> /\ ~grep_selects(lines, pattern, n, k - 1)
              THEN before \o <<GrepGroupSeparator, lines[k]>>
              ELSE before \o <<lines[k]>>

\* subprocess.run(['grep', '-A', n, pattern, file]): returncode and stdout
grep_A(lines, pattern, n) ==
    [returncode |-> IF \E j \in 1..Len(lines) : contains(lines[j], pattern)
                    THEN 0 ELSE 1,
     stdout |-> grep_output(lines, pattern, n, Len(lines))]

\* the loop over result.stdout.splitlines(): the text after `key` on the
\* first line that holds it, as <<version>>, or <<>> when no line does
RECURSIVE first_value_of(_, _)
first_value_of(lines, key) ==
    IF lines = <<>> THEN <<>>
    ELSE IF contains(Head(lines), <<key>>)
    THEN <<Flatten(strip(split_sep(Head(lines), key)[2]))>>
    ELSE first_value_of(Tail(lines), key)

\* git_dir.exists() alone
is_git_repository_exists_only(proj) == proj.git # "absent"

\* git_dir.exists() and git_dir.is_dir()
is_git_repository(proj) == proj.git # "absent" /\ proj.git = "dir"

\* a call's outcome: raised, or returned value (<<>> is None)
Raised == [raised |-> TRUE, value |-> <<>>]
Returned(v) == [raised |-> FALSE, value |-> v]

get_python_version_from_config(proj) ==
    IF ~is_git_repository(proj) THEN Raised
    ELSE IF ~proj.config.exists THEN Returned(<<>>)
    ELSE LET result == grep_A(proj.config.lines, <<"default_language_version:">>, 1)
         IN IF result.returncode = 0
            THEN Returned(first_value_of(result.stdout, "python:"))
            ELSE Returned(<<>>)

get_tool_version_from_config(proj, repo_pattern) ==
    IF ~is_git_repository(proj) THEN Raised
    ELSE IF ~proj.config.exists THEN Returned(<<>>)
    ELSE LET result == grep_A(proj.config.lines, repo_pattern, 3)
         IN IF result.returncode = 0
            THEN Returned(first_value_of(result.stdout, "rev:"))
            ELSE Returned(<<>>)

\* the rows SELECT path FROM repos WHERE repo LIKE %pattern% AND ref = version
\* returns, in the order of the table
RECURSIVE select_paths(_, _, _)
select_paths(rows, pattern, version) ==
    IF rows = <<>> THEN <<>>
    ELSE (IF contains(Head(rows).repo, pattern) /\ Head(rows).ref = version
          THEN <<Head(rows).path>> ELSE <<>>)
         \o select_paths(Tail(rows), pattern, version)

\* query_precommit_db: <<path>> or <<>> for None; a database sqlite3 cannot
\* read raises inside the try and gives None
query_precommit_db(proj, repo_pattern, version) ==
    IF ~proj.db.exists THEN <<>>
    ELSE IF ~proj.db.readable THEN <<>>
    ELSE LET results == select_paths(proj.db.rows, repo_pattern, version)
         IN IF results # <<>> THEN <<results[Len(results)]>> ELSE <<>>

\* repo_pattern.split('/')[-1] if '/' in repo_pattern else repo_pattern
db_pattern_of(repo_pattern) ==
    IF contains(repo_pattern, <<"/">>)
    THEN split_sep(repo_pattern, "/")[Len(split_sep(repo_pattern, "/"))]
    ELSE repo_pattern

\* f'{repo_path}/py_env-{python_version}/bin/{tool_name}'
full_path_of(repo, version, tool_name) ==
    repo \o "/py_env-" \o version \o "/bin/" \o tool_name

\* the existence check answering yes whatever the disk holds
os_path_exists_unchecked(proj, path) == TRUE

\* os.path.exists(full_path)
os_path_exists(proj, path) == path \in proj.disk

\* `not x` for an optional string: None or the empty string
falsy(x) == x = <<>> \/ x = <<"">>

(***************************************************************************)
(* Projects and caches get_tool_path is called on.                         *)
(***************************************************************************)
RuffPattern == <<"astral-sh", "/", "ruff-pre-commit">>
Flake8Pattern == <<"pycqa", "/", "flake8">>

ToolArgs ==
    {[repo_pattern |-> RuffPattern, tool_name |-> "ruff"],
     [repo_pattern |-> Flake8Pattern, tool_name |-> "flake8"]}

RuffUrl == <<"https://github.com/", "astral-sh", "/", "ruff-pre-commit">>
Flake8Url == <<"https://github.com/", "pycqa", "/", "flake8">>

\* lines of a .pre-commit-config.yaml
DlvLine == <<"default_language_version:">>
Py312Line == <<" ", "python:", " ", "python3.12">>
Py311Line == <<" ", "python:", " ", "python3.11">>
PyEmptyLine == <<" ", "python:">>
RuffRepoLine == <<"-", " ", "repo:", " ">> \o RuffUrl
Flake8RepoLine == <<"-", " ", "repo:", " ">> \o Flake8Url
Rev1Line == <<" ", "rev:", " ", "v1">>
Rev2Line == <<" ", "rev:", " ", "v2">>
HooksLine == <<" ", "hooks:">>

NoConfig == [exists |-> FALSE, lines |-> <<>>]
ConfigOf(lines) == [exists |-> TRUE, lines |-> lines]

\* configs put together from a language part and a repo part
LanguageParts ==
    {<<>>, <<DlvLine, Py312Line>>, <<DlvLine, PyEmptyLine>>, <<DlvLine, HooksLine>>}
RepoParts ==
    {<<>>, <<RuffRepoLine, Rev1Line>>, <<RuffRepoLine, HooksLine>>,
     <<Flake8RepoLine, Rev2Line>>}
ComposedConfigs ==
    {NoConfig} \cup {ConfigOf(a \o b) : a \in LanguageParts, b \in RepoParts}

\* configs of any lines, in any order
ConfigLines ==
    {DlvLine, Py312Line, Py311Line, RuffRepoLine, Rev1Line, Rev2Line, HooksLine}
FreeConfigs == {ConfigOf(l) : l \in SeqsUpTo(ConfigLines, MaxConfigLines)}

\* the repos table of the cache database
DbRows ==
    {[repo |-> RuffUrl, ref |-> "v1", path |-> "/cache/repo1"],
     [repo |-> RuffUrl, ref |-> "v1", path |-> "/cache/repo2"],
     [repo |-> RuffUrl, ref |-> "v2", path |-> "/cache/repo3"],
     [repo |-> Flake8Url, ref |-> "v2", path |-> "/cache/repo1"]}
NoDb == [exists |-> FALSE, readable |-> FALSE, rows |-> <<>>]
UnreadableDb == [exists |-> TRUE, readable |-> FALSE, rows |-> <<>>]
DbOf(rows) == [exists |-> TRUE, readable |-> TRUE, rows |-> rows]
Databases == {NoDb, UnreadableDb} \cup {DbOf(r) : r \in SeqsUpTo(DbRows, 2)}
FullDb ==
    DbOf(<<[repo |-> RuffUrl, ref |-> "v1", path |-> "/cache/repo1"],
           [repo |-> RuffUrl, ref |-> "v2", path |-> "/cache/repo3"]>>)

\* the executables that may exist in the cache
Executables ==
    {full_path_of(r, v, t) :
        r \in {"/cache/repo1", "/cache/repo3"},
        v \in {"python3.12", "python3.11"}, t \in {"ruff"}}
Disks ==
    {{}, {"/cache/repo1/py_env-python3.12/bin/ruff"},
     {"/cache/repo2/py_env-python3.12/bin/ruff",
      "/cache/repo1/py_env-python3.12/bin/flake8"},
     Executables}

Pending == [kind |-> "pending", value |-> ""]

\* get_tool_path has not been called
LocatorIdle ==
    /\ project = [git |-> "absent", config |-> NoConfig, db |-> NoDb, disk |-> {}]
    /\ tool_args = [repo_pattern |-> <<>>, tool_name |-> ""]
    /\ python_version = <<>>
    /\ tool_version = <<>>
    /\ repo_path = <<>>
    /\ tool_result = Pending
    /\ loc_trace = <<>>
    /\ loc_pc = "idle"

\* an output directory path that does not exist
NoOutputDir == [kind |-> "absent", entries |-> <<>>]

\* the report generator's main has not been started
MainIdle ==
    /\ main_fs = [project_exists |-> FALSE, script |-> "missing",
                  returncode |-> <<>>, out_dir |-> NoOutputDir]
    /\ main_fs0 = main_fs
    /\ main_trace = <<>>
    /\ main_pc = "idle"
    /\ exit_code = <<>>

(***************************************************************************)
(* Raw stats directories the converter is run on.                          *)
(***************************************************************************)
\* atoms of the single-line raw files
LineAlphabet == {"1", "-", "misc", " ", "\t"}
\* atoms of the multi-line raw files
RawAlphabet == {"1", "misc", "\t", "\n"}

RawContents ==
    SeqsUpTo(LineAlphabet, MaxLineLen) \cup SeqsUpTo(RawAlphabet, MaxRawLen)

MissingFile == [exists |-> FALSE, content |-> <<>>]

\* the report generator has not been started
ReportIdle ==
    /\ combined_report = <<>>
    /\ low_risk_report = <<>>
    /\ report_pc = "idle"

StatsInit ==
    /\ \E k \in Linters, c \in RawContents :
           raw_dir = [l \in Linters |->
                          IF l = k THEN [exists |-> TRUE, content |-> c]
                          ELSE MissingFile]
    /\ linter_data = NoData
    /\ stats_pc = "start"
    /\ ReportIdle
    /\ LocatorIdle
    /\ MainIdle

\* convert_stats_to_json: parse the three raw files, write the dataset
convert_stats_to_json ==
    /\ stats_pc = "start"
    /\ linter_data' = converted(raw_dir)
    /\ stats_pc' = "done"
    /\ UNCHANGED <<raw_dir, report_vars, locator_vars, main_vars>>

StatsNext == convert_stats_to_json

SpecStats == StatsInit /\ [][StatsNext]_vars

(***************************************************************************)
(* generate_linter_report.py: rendering.                                   *)
(* A report is the sequence of its text lines; a line is a record whose    *)
(* kind names the markdown construct and whose other fields hold what the  *)
(* f-string interpolates into it.                                          *)
(***************************************************************************)
SeparatorWidth == 80

\* SEPARATOR = '-' * 80
SEPARATOR == [i \in 1..SeparatorWidth |-> "-"]

BlankLine == [kind |-> "blank"]
RuleLine == [kind |-> "rule", text |-> SEPARATOR]
Heading1(title) == [kind |-> "h1", text |-> title]
Heading2(title) == [kind |-> "h2", text |-> title]
TextLine(text) == [kind |-> "text", text |-> text]
TableHeader(columns) == [kind |-> "thead", cells |-> columns]
TableRuler(n) == [kind |-> "truler", columns |-> n]
TableRow(cells) == [kind |-> "row", cells |-> cells]
TotalLine(n) == [kind |-> "total", count |-> n]

\* sorted(errors, key=count) reversed: equal counts come out in reverse order
RECURSIVE insert_asc(_, _)
insert_asc(x, s) ==
    IF s = <<>> THEN <<x>>
    ELSE IF Head(s).count <= x.count THEN <<Head(s)>> \o insert_asc(x, Tail(s))
    ELSE <<x>> \o s

RECURSIVE sorted_asc(_)
sorted_asc(s) ==
    IF s = <<>> THEN <<>>
    ELSE insert_asc(s[Len(s)], sorted_asc(SubSeq(s, 1, Len(s) - 1)))

sorted_then_reversed(errors) ==
    [i \in 1..Len(errors) |-> sorted_asc(errors)[Len(errors) + 1 - i]]

\* x placed behind every element of the sorted s whose count is not smaller
RECURSIVE insert_desc(_, _)
insert_desc(x, s) ==
    IF s = <<>> THEN <<x>>
    ELSE IF Head(s).count >= x.count THEN <<Head(s)>> \o insert_desc(x, Tail(s))
    ELSE <<x>> \o s

RECURSIVE sorted_desc(_)
sorted_desc(s) ==
    IF s = <<>> THEN <<>>
    ELSE insert_desc(s[Len(s)], sorted_desc(SubSeq(s, 1, Len(s) - 1)))

\* sorted(errors, key=lambda x: x['count'], reverse=True): a stable sort
sorted_by_count_reverse(errors) == sorted_desc(errors)

RECURSIVE total_count(_)
total_count(errors) ==
    IF errors = <<>> THEN 0 ELSE Head(errors).count + total_count(Tail(errors))

linter_table_rows(sorted_errors) ==
    [i \in 1..Len(sorted_errors) |->
        TableRow(<<sorted_errors[i].linter, sorted_errors[i].code,
                   sorted_errors[i].description, sorted_errors[i].count>>)]

\* create_individual_linter_table without the test for an empty list
linter_table_always(linter_name, linter_errors) ==
    <<Heading2(linter_name), BlankLine,
      TableHeader(<<"Hook", "Error Code", "Description", "Count">>),
      TableRuler(4)>>
    \o linter_table_rows(sorted_by_count_reverse(linter_errors))
    \o <<BlankLine, TotalLine(total_count(linter_errors)), BlankLine>>

create_individual_linter_table(linter_name, linter_errors) ==
    IF linter_errors = <<>>
    THEN <<Heading2(linter_name), BlankLine, TextLine("No errors found."),
           BlankLine>>
    ELSE <<Heading2(linter_name), BlankLine,
           TableHeader(<<"Hook", "Error Code", "Description", "Count">>),
           TableRuler(4)>>
         \o linter_table_rows(sorted_by_count_reverse(linter_errors))
         \o <<BlankLine, TotalLine(total_count(linter_errors)), BlankLine>>

create_combined_report(data) ==
    <<Heading1("Pre-commit Error Statistics"), BlankLine>>
    \o create_individual_linter_table("Ruff", data.linters["ruff"])
    \o <<RuleLine, BlankLine>>
    \o create_individual_linter_table("Flake8", data.linters["flake8"])
    \o <<RuleLine, BlankLine>>
    \o create_individual_linter_table("Mypy", data.linters["mypy"])

\* LOW_RISK_FIX_CATEGORIES, in declaration order
LOW_RISK_FIX_CATEGORIES ==
    <<[name |-> "Formatting/Style",
       patterns |-> <<"T201", "D205", "D415", "D200", "E203", "E261", "E127">>,
       risk |-> "Very Low", fix_type |-> "Formatting/style changes"],
      [name |-> "Dead/Commented Code",
       patterns |-> <<"ERA001", "E800">>,
       risk |-> "Very Low", fix_type |-> "Remove commented code"],
      [name |-> "Simple Refactoring",
       patterns |-> <<"SIM201", "SIM108", "PIE810", "PERF401", "RET504", "R504">>,
       risk |-> "Low", fix_type |-> "Simple logic improvements"]>>

\* error_code in info['patterns']
in_patterns(error_code, patterns) ==
    \E i \in 1..Len(patterns) : patterns[i] = error_code

\* the loop of categorize_error_for_low_risk_fixes from category c on
RECURSIVE categorize_from(_, _)
categorize_from(error_code, c) ==
    IF c > Len(LOW_RISK_FIX_CATEGORIES) THEN 0
    ELSE IF in_patterns(error_code, LOW_RISK_FIX_CATEGORIES[c].patterns) THEN c
    ELSE categorize_from(error_code, c + 1)

\* a code of no category falls into the last one, as a catch-all bucket
categorize_catch_all(error_code) ==
    IF categorize_from(error_code, 1) = 0 THEN Len(LOW_RISK_FIX_CATEGORIES)
    ELSE categorize_from(error_code, 1)

\* the index of the category of a code, 0 for None
categorize_error_for_low_risk_fixes(error_code) == categorize_from(error_code, 1)

\* the low risk report looks at every linter, mypy included
low_risk_linters_all == <<"ruff", "flake8", "mypy">>

\* for linter_name in ['ruff', 'flake8']
low_risk_linters == <<"ruff", "flake8">>

\* the errors of the sequence that fall in category c, in their order
RECURSIVE errors_in_category(_, _)
errors_in_category(errors, c) ==
    IF errors = <<>> THEN <<>>
    ELSE (IF categorize_error_for_low_risk_fixes(Head(errors).code) = c
          THEN <<Head(errors)>> ELSE <<>>)
         \o errors_in_category(Tail(errors), c)

\* categorized_errors[category] after the loop over the first n linters
RECURSIVE categorized_errors(_, _, _)
categorized_errors(data, c, n) ==
    IF n = 0 THEN <<>>
    ELSE categorized_errors(data, c, n - 1)
         \o errors_in_category(data.linters[low_risk_linters[n]], c)

low_risk_rows(sorted_errors) ==
    [i \in 1..Len(sorted_errors) |->
        TableRow(<<sorted_errors[i].code, sorted_errors[i].description,
                   sorted_errors[i].linter, sorted_errors[i].count>>)]

low_risk_section(data, c) ==
    LET errors == categorized_errors(data, c, Len(low_risk_linters)) IN
    IF errors = <<>> THEN <<>>
    ELSE <<Heading2(LOW_RISK_FIX_CATEGORIES[c].name), BlankLine,
           TableHeader(<<"Error Code", "Description", "Linter", "Count">>),
           TableRuler(4)>>
         \o low_risk_rows(sorted_by_count_reverse(errors))
         \o <<BlankLine, RuleLine, BlankLine>>

\* the sections of the first n categories
RECURSIVE low_risk_sections(_, _)
low_risk_sections(data, n) ==
    IF n = 0 THEN <<>>
    ELSE low_risk_sections(data, n - 1) \o low_risk_section(data, n)

create_low_risk_fixes_report(data) ==
    <<Heading1("Low Risk Errors"), BlankLine>>
    \o low_risk_sections(data, Len(LOW_RISK_FIX_CATEGORIES))

(***************************************************************************)
(* Datasets the report generator is run on: what load_json_data returns    *)
(* for a linter_stats.json written by the converter.                       *)
(***************************************************************************)
ReportCodes == {"E203", "ERA001", "SIM108", "misc"}
ReportCounts == {1, 2}

ReportRecords(linter) ==
    [linter : {linter}, count : ReportCounts, code : ReportCodes,
     description : {"-"}]

\* the converter has not been started
StatsIdle ==
    /\ raw_dir = [l \in Linters |-> MissingFile]
    /\ stats_pc = "idle"

ReportInit ==
    /\ StatsIdle
    /\ \E nf, nr, nm \in 0..MaxRecords :
           /\ nf + nr + nm <= MaxRecords
           /\ \E f \in [1..nf -> ReportRecords("flake8")],
                 r \in [1..nr -> ReportRecords("ruff")],
                 m \in [1..nm -> ReportRecords("mypy")] :
                  linter_data = [linters |-> [flake8 |-> f, ruff |-> r, mypy |-> m]]
    /\ combined_report = <<>>
    /\ low_risk_report = <<>>
    /\ report_pc = "combined"
    /\ LocatorIdle
    /\ MainIdle

\* main: combined_report = create_combined_report(linter_data)
CreateCombinedReport ==
    /\ report_pc = "combined"
    /\ combined_report' = create_combined_report(linter_data)
    /\ report_pc' = "low_risk"
    /\ UNCHANGED <<linter_data, low_risk_report, stats_vars, locator_vars, main_vars>>

\* main: low_risk_report = create_low_risk_fixes_report(linter_data)
CreateLowRiskFixesReport ==
    /\ report_pc = "low_risk"
    /\ low_risk_report' = create_low_risk_fixes_report(linter_data)
    /\ report_pc' = "rendered"
    /\ UNCHANGED <<linter_data, combined_report, stats_vars, locator_vars, main_vars>>

ReportNext == CreateCombinedReport \/ CreateLowRiskFixesReport

SpecReport == ReportInit /\ [][ReportNext]_vars

(***************************************************************************)
(* get_tool_path, step by step.                                            *)
(***************************************************************************)
LocatorInit ==
    /\ StatsIdle
    /\ linter_data = NoData
    /\ ReportIdle
    /\ \/ /\ \E g \in {"absent", "file", "dir"}, c \in ComposedConfigs,
                d \in Databases, x \in Disks :
                 project = [git |-> g, config |-> c, db |-> d, disk |-> x]
          /\ tool_args \in ToolArgs
       \/ /\ \E c \in FreeConfigs :
                 project = [git |-> "dir", config |-> c, db |-> FullDb,
                            disk |-> Executables]
          /\ tool_args = [repo_pattern |-> RuffPattern, tool_name |-> "ruff"]
    /\ python_version = <<>>
    /\ tool_version = <<>>
    /\ repo_path = <<>>
    /\ tool_result = Pending
    /\ loc_trace = <<>>
    /\ loc_pc = "validate"
    /\ MainIdle

\* if not is_git_repository(project_path): raise ValueError
ValidateGitRepository ==
    /\ loc_pc = "validate"
    /\ loc_trace' = Append(loc_trace, "is_git_repository")
    /\ IF is_git_repository(project)
       THEN /\ loc_pc' = "python_version"
            /\ UNCHANGED tool_result
       ELSE /\ loc_pc' = "raised"
            /\ tool_result' = [kind |-> "raise", value |-> "Not a git repository"]
    /\ UNCHANGED <<project, tool_args, python_version, tool_version, repo_path,
                   stats_vars, linter_data, report_vars,
                   main_vars>>

\* python_version = get_python_version_from_config(project_path)
GetPythonVersion ==
    /\ loc_pc = "python_version"
    /\ loc_trace' = Append(loc_trace, "get_python_version_from_config")
    /\ LET r == get_python_version_from_config(project) IN
       IF r.raised
       THEN /\ loc_pc' = "raised"
            /\ tool_result' = [kind |-> "raise", value |-> "Not a git repository"]
            /\ UNCHANGED python_version
       ELSE /\ python_version' = r.value
            /\ IF falsy(r.value)
               THEN /\ loc_pc' = "returned"
                    /\ tool_result' = [kind |-> "none", value |-> ""]
               ELSE /\ loc_pc' = "tool_version"
                    /\ UNCHANGED tool_result
    /\ UNCHANGED <<project, tool_args, tool_version, repo_path,
                   stats_vars, linter_data, report_vars,
                   main_vars>>

\* tool_version = get_tool_version_from_config(project_path, repo_pattern)
GetToolVersion ==
    /\ loc_pc = "tool_version"
    /\ loc_trace' = Append(loc_trace, "get_tool_version_from_config")
    /\ LET r == get_tool_version_from_config(project, tool_args.repo_pattern) IN
       IF r.raised
       THEN /\ loc_pc' = "raised"
            /\ tool_result' = [kind |-> "raise", value |-> "Not a git repository"]
            /\ UNCHANGED tool_version
       ELSE /\ tool_version' = r.value
            /\ IF falsy(r.value)
               THEN /\ loc_pc' = "returned"
                    /\ tool_result' = [kind |-> "none", value |-> ""]
               ELSE /\ loc_pc' = "query_db"
                    /\ UNCHANGED tool_result
    /\ UNCHANGED <<project, tool_args, python_version, repo_path,
                   stats_vars, linter_data, report_vars,
                   main_vars>>

\* repo_path = query_precommit_db(db_pattern, tool_version)
QueryPrecommitDb ==
    /\ loc_pc = "query_db"
    /\ loc_trace' = Append(loc_trace, "query_precommit_db")
    /\ repo_path' = query_precommit_db(project, db_pattern_of(tool_args.repo_pattern),
                                       tool_version[1])
    /\ IF falsy(repo_path')
       THEN /\ loc_pc' = "returned"
            /\ tool_result' = [kind |-> "none", value |-> ""]
       ELSE /\ loc_pc' = "check_exists"
            /\ UNCHANGED tool_result
    /\ UNCHANGED <<project, tool_args, python_version, tool_version,
                   stats_vars, linter_data, report_vars,
                   main_vars>>

\* full_path = ...; return full_path if os.path.exists(full_path) else None
CheckExecutable ==
    /\ loc_pc = "check_exists"
    /\ loc_trace' = Append(loc_trace, "os.path.exists")
    /\ LET full_path == full_path_of(repo_path[1], python_version[1],
                                     tool_args.tool_name)
       IN tool_result' = IF os_path_exists(project, full_path)
                         THEN [kind |-> "path", value |-> full_path]
                         ELSE [kind |-> "none", value |-> ""]
    /\ loc_pc' = "returned"
    /\ UNCHANGED <<project, tool_args, python_version, tool_version, repo_path,
                   stats_vars, linter_data, report_vars,
                   main_vars>>

LocatorNext ==
    \/ ValidateGitRepository
    \/ GetPythonVersion
    \/ GetToolVersion
    \/ QueryPrecommitDb
    \/ CheckExecutable

SpecLocator == LocatorInit /\ [][LocatorNext]_vars

(***************************************************************************)
(* generate_linter_report.py: main, from the validated arguments to the    *)
(* exit code.  The output directory is a map from the names of its         *)
(* top-level entries to what they are: nothing, a regular file, a symlink  *)
(* to a regular file, or a subdirectory with the set of files it holds.    *)
(***************************************************************************)
ProjectName == "proj"
CombinedReportName == ProjectName \o "-linter_report.md"
LowRiskReportName == ProjectName \o "-linter_low_risk_report.md"
JsonName == "linter_stats.json"
RawStatsName == "ruff_stats_raw.txt"
SubdirName == "archive"
EntryNames ==
    {RawStatsName, JsonName, CombinedReportName, LowRiskReportName, SubdirName}

NoEntry == [kind |-> "none", origin |-> "", body |-> <<>>, inner |-> {}]
FileOf(origin, body) ==
    [kind |-> "file", origin |-> origin, body |-> body, inner |-> {}]
OldFile == FileOf("old", <<>>)
OldLink == [kind |-> "link", origin |-> "old", body |-> <<>>, inner |-> {}]
OldDir(inner) == [kind |-> "dir", origin |-> "old", body |-> <<>>, inner |-> inner]

EmptyOutputDir == [kind |-> "dir", entries |-> [n \in EntryNames |-> NoEntry]]
FileAsOutputDir == [kind |-> "file", entries |-> <<>>]

\* Path.exists()
path_exists(path) == path.kind # "absent"

\* output_dir.mkdir(parents=True, exist_ok=True): FileExistsError when the
\* path is there and is not a directory
mkdir_exist_ok(output_dir) ==
    IF output_dir.kind = "absent"
    THEN [raised |-> FALSE, dir |-> EmptyOutputDir]
    ELSE IF output_dir.kind = "dir"
    THEN [raised |-> FALSE, dir |-> output_dir]
    ELSE [raised |-> TRUE, dir |-> output_dir]

setup_output_directory(output_dir) == mkdir_exist_ok(output_dir)

\* file.is_file(): follows symlinks
is_file(entry) == entry.kind \in {"file", "link"}

\* the loop over output_dir.glob('*') removing nothing
clean_nothing(output_dir) == [raised |-> FALSE, dir |-> output_dir]

clean_output_directory(output_dir) ==
    IF path_exists(output_dir)
    THEN [raised |-> FALSE,
          dir |-> IF output_dir.kind = "dir"
                  THEN [output_dir EXCEPT !.entries =
                            [n \in EntryNames |->
                                IF is_file(output_dir.entries[n]) THEN NoEntry
                                ELSE output_dir.entries[n]]]
                  ELSE output_dir]
    ELSE mkdir_exist_ok(output_dir)

\* the datasets the collection script may leave in linter_stats.json
MainDatasets ==
    {NoData,
     [linters |->
         [flake8 |-> <<>>,
          ruff |-> <<[linter |-> "ruff", count |-> 2, code |-> "E203",
                      description |-> "-"]>>,
          mypy |-> <<>>]]}

\* what one run of collect_linter_stats.sh does: its exit code, whether it
\* leaves raw stats, whether it leaves linter_stats.json and with what in it
\* (<<>> is a file json.load cannot read)
ScriptRuns ==
    [returncode : {0, 1}, raw : BOOLEAN, json : BOOLEAN,
     json_body : {<<>>} \cup {<<d>> : d \in MainDatasets}]

\* the output directory after the script ran
script_effect(output_dir, run) ==
    [output_dir EXCEPT !.entries =
        [n \in EntryNames |->
            IF n = RawStatsName /\ run.raw THEN FileOf("script", <<>>)
            ELSE IF n = JsonName /\ run.json THEN FileOf("script", run.json_body)
            ELSE output_dir.entries[n]]]

\* run_data_collection with subprocess.run(check=False): the exit code of
\* the script is not looked at
run_data_collection_unchecked(fs, run) ==
    IF fs.script = "missing"
    THEN [raised |-> TRUE, returncode |-> <<>>, dir |-> fs.out_dir]
    ELSE IF fs.script = "not_executable"
    THEN [raised |-> TRUE, returncode |-> <<>>, dir |-> fs.out_dir]
    ELSE LET dir == script_effect(fs.out_dir, run) IN
         [raised |-> dir.entries[JsonName].kind = "none",
          returncode |-> <<run.returncode>>, dir |-> dir]

\* run_data_collection: RuntimeError when the script is missing, when it
\* exits non-zero, when linter_stats.json is not there afterwards; a script
\* that cannot be executed makes subprocess.run raise
run_data_collection(fs, run) ==
    IF fs.script = "missing"
    THEN [raised |-> TRUE, returncode |-> <<>>, dir |-> fs.out_dir]
    ELSE IF fs.script = "not_executable"
    THEN [raised |-> TRUE, returncode |-> <<>>, dir |-> fs.out_dir]
    ELSE LET dir == script_effect(fs.out_dir, run) IN
         [raised |-> \/ run.returncode # 0
                     \/ dir.entries[JsonName].kind = "none",
          returncode |-> <<run.returncode>>, dir |-> dir]

\* load_json_data: json.load raises on a file that is not JSON
load_json_data(output_dir) ==
    LET body == output_dir.entries[JsonName].body IN
    IF body = <<>> THEN [raised |-> TRUE, data |-> NoData]
    ELSE [raised |-> FALSE, data |-> body[1]]

\* write_report: open(output_path, 'w') and write; a directory of that name
\* makes open raise
write_report(report_content, output_dir, name) ==
    IF output_dir.entries[name].kind = "dir"
    THEN [raised |-> TRUE, dir |-> output_dir]
    ELSE [raised |-> FALSE,
          dir |-> [output_dir EXCEPT !.entries[name] =
                       FileOf("main", report_content)]]

\* the validation answering yes whatever the project path is
project_path_unchecked(fs) == TRUE

\* project_path.exists()
project_path_exists(fs) == fs.project_exists

(***************************************************************************)
(* The disks main is started on.                                           *)
(***************************************************************************)
OutputDirs ==
    {NoOutputDir, FileAsOutputDir} \cup
    {[kind |-> "dir", entries |-> e] :
        e \in {f \in [EntryNames -> {NoEntry, OldFile, OldLink,
                                     OldDir({}), OldDir({CombinedReportName})}] :
                  /\ f[SubdirName].kind \in {"none", "dir"}
                  /\ f[RawStatsName].kind # "dir"
                  /\ f[JsonName].kind \in {"none", "file"}
                  /\ f[CombinedReportName].kind \in {"none", "file"}
                  /\ f[LowRiskReportName].kind \in {"none", "file"}}}

MainInit ==
    /\ StatsIdle
    /\ linter_data = NoData
    /\ ReportIdle
    /\ LocatorIdle
    /\ main_fs \in [project_exists : BOOLEAN,
                    script : {"missing", "not_executable", "present"},
                    returncode : {<<>>},
                    out_dir : OutputDirs]
    /\ main_fs0 = main_fs
    /\ main_trace = <<>>
    /\ main_pc = "validate"
    /\ exit_code = <<>>

\* sys.exit(1), from the validation or from the except clause
Exit1 ==
    /\ main_pc' = "exited"
    /\ exit_code' = <<1>>

\* if not project_path.exists(): sys.exit(1)
ValidateProjectPath ==
    /\ main_pc = "validate"
    /\ IF project_path_exists(main_fs)
       THEN main_pc' = "setup" /\ UNCHANGED exit_code
       ELSE Exit1
    /\ UNCHANGED <<main_fs, main_fs0, main_trace, linter_data, stats_vars,
                   report_vars, locator_vars>>

\* setup_output_directory(output_dir)
SetupOutputDirectory ==
    /\ main_pc = "setup"
    /\ main_trace' = Append(main_trace, "setup_output_directory")
    /\ LET r == setup_output_directory(main_fs.out_dir) IN
       /\ main_fs' = [main_fs EXCEPT !.out_dir = r.dir]
       /\ IF r.raised THEN Exit1
          ELSE main_pc' = "clean" /\ UNCHANGED exit_code
    /\ UNCHANGED <<main_fs0, linter_data, stats_vars, report_vars, locator_vars>>

\* clean_output_directory(output_dir)
CleanOutputDirectory ==
    /\ main_pc = "clean"
    /\ main_trace' = Append(main_trace, "clean_output_directory")
    /\ LET r == clean_output_directory(main_fs.out_dir) IN
       /\ main_fs' = [main_fs EXCEPT !.out_dir = r.dir]
       /\ IF r.raised THEN Exit1
          ELSE main_pc' = "collect" /\ UNCHANGED exit_code
    /\ UNCHANGED <<main_fs0, linter_data, stats_vars, report_vars, locator_vars>>

\* json_path = run_data_collection(project_path, script_dir, output_dir)
RunDataCollection ==
    /\ main_pc = "collect"
    /\ \E run \in ScriptRuns :
           LET r == run_data_collection(main_fs, run) IN
           /\ main_trace' = Append(main_trace, "run_data_collection")
           /\ main_fs' = [main_fs EXCEPT !.out_dir = r.dir,
                                         !.returncode = r.returncode]
           /\ IF r.raised THEN Exit1
              ELSE main_pc' = "load" /\ UNCHANGED exit_code
    /\ UNCHANGED <<main_fs0, linter_data, stats_vars, report_vars, locator_vars>>

\* linter_data = load_json_data(json_path)
LoadJsonData ==
    /\ main_pc = "load"
    /\ main_trace' = Append(main_trace, "load_json_data")
    /\ LET r == load_json_data(main_fs.out_dir) IN
       /\ linter_data' = r.data
       /\ IF r.raised THEN Exit1
          ELSE main_pc' = "render" /\ UNCHANGED exit_code
    /\ UNCHANGED <<main_fs, main_fs0, stats_vars, report_vars, locator_vars>>

\* combined_report = create_combined_report(linter_data)
\* low_risk_report = create_low_risk_fixes_report(linter_data)
CreateReports ==
    /\ main_pc = "render"
    /\ main_trace' = Append(main_trace, "create_reports")
    /\ combined_report' = create_combined_report(linter_data)
    /\ low_risk_report' = create_low_risk_fixes_report(linter_data)
    /\ main_pc' = "write_combined"
    /\ UNCHANGED <<main_fs, main_fs0, exit_code, linter_data, report_pc,
                   stats_vars, locator_vars>>

\* write_report(combined_report, combined_path)
WriteCombinedReport ==
    /\ main_pc = "write_combined"
    /\ main_trace' = Append(main_trace, "write_report")
    /\ LET r == write_report(combined_report, main_fs.out_dir, CombinedReportName) IN
       /\ main_fs' = [main_fs EXCEPT !.out_dir = r.dir]
       /\ IF r.raised THEN Exit1
          ELSE main_pc' = "write_low_risk" /\ UNCHANGED exit_code
    /\ UNCHANGED <<main_fs0, linter_data, stats_vars, report_vars, locator_vars>>

\* write_report(low_risk_report, low_risk_path); main returns, exit code 0
WriteLowRiskReport ==
    /\ main_pc = "write_low_risk"
    /\ main_trace' = Append(main_trace, "write_report")
    /\ LET r == write_report(low_risk_report, main_fs.out_dir, LowRiskReportName) IN
       /\ main_fs' = [main_fs EXCEPT !.out_dir = r.dir]
       /\ IF r.raised THEN Exit1
          ELSE main_pc' = "exited" /\ exit_code' = <<0>>
    /\ UNCHANGED <<main_fs0, linter_data, stats_vars, report_vars, locator_vars>>

MainNext ==
    \/ ValidateProjectPath
    \/ SetupOutputDirectory
    \/ CleanOutputDirectory
    \/ RunDataCollection
    \/ LoadJsonData
    \/ CreateReports
    \/ WriteCombinedReport
    \/ WriteLowRiskReport

SpecMain == MainInit /\ [][MainNext]_vars

(***************************************************************************)
(* What a raw line holds, read off the text without the parser: blanks are *)
(* located by position, fields by the positions of their separators.       *)
(***************************************************************************)
SetMin(S) == CHOOSE x \in S : \A y \in S : x <= y
SetMax(S) == CHOOSE x \in S : \A y \in S : x >= y

NonBlank(t) == {i \in 1..Len(t) : t[i] \notin Whitespace}

Trimmed(t) ==
    IF NonBlank(t) = {} THEN <<>>
    ELSE SubSeq(t, SetMin(NonBlank(t)), SetMax(NonBlank(t)))

\* where the n-th field of a line starts and ends, for a blank-separated
\* line (words) and for a tab-separated line (between the tabs of the
\* trimmed line)
WordStarts(t) == {i \in NonBlank(t) : i = 1 \/ t[i - 1] \in Whitespace}
WordEnds(t) == {i \in NonBlank(t) : i = Len(t) \/ t[i + 1] \in Whitespace}
NthOf(S, n) == CHOOSE x \in S : Cardinality({y \in S : y < x}) = n - 1
Tabs(t) == {i \in 1..Len(t) : t[i] = "\t"}

FieldCount(line, linter) ==
    IF linter = "ruff"
    THEN IF Trimmed(line) = <<>> THEN 0 ELSE Cardinality(Tabs(Trimmed(line))) + 1
    ELSE Cardinality(WordStarts(line))

\* the n-th field, n <= FieldCount
FieldOf(line, linter, n) ==
    IF linter = "ruff"
    THEN LET t == Trimmed(line)
             from == IF n = 1 THEN 1 ELSE NthOf(Tabs(t), n - 1) + 1
             to == IF n > Cardinality(Tabs(t)) THEN Len(t)
                   ELSE NthOf(Tabs(t), n) - 1
         IN Trimmed(SubSeq(t, from, to))
    ELSE SubSeq(line, NthOf(WordStarts(line), n), NthOf(WordEnds(line), n))

\* all of the line that follows its n-th field and the separator after it
RestOf(line, linter, n) ==
    IF linter = "ruff"
    THEN LET t == Trimmed(line)
         IN Trimmed(SubSeq(t, NthOf(Tabs(t), n) + 1, Len(t)))
    ELSE Trimmed(SubSeq(line, NthOf(WordEnds(line), n) + 1, Len(line)))

IsDecimal(f) ==
    LET body == IF f # <<>> /\ f[1] \in {"-", "+"} THEN 2..Len(f) ELSE 1..Len(f)
    IN body # {} /\ \A i \in body : f[i] \in DOMAIN DigitValue

RECURSIVE Pow10(_)
Pow10(n) == IF n = 0 THEN 1 ELSE 10 * Pow10(n - 1)

RECURSIVE SumOver(_, _)
SumOver(S, f) ==
    IF S = {} THEN 0
    ELSE LET x == CHOOSE y \in S : TRUE IN f[x] + SumOver(S \ {x}, f)

DecimalValue(f) ==
    LET body == IF f[1] \in {"-", "+"} THEN 2..Len(f) ELSE 1..Len(f)
        mag == SumOver(body, [i \in body |-> DigitValue[f[i]] * Pow10(Len(f) - i)])
    IN IF f[1] = "-" THEN 0 - mag ELSE mag

\* the line has the field arity the parser expects (a count and a code at
\* least) and its first field is an integer
WellFormed(line, linter) ==
    /\ FieldCount(line, linter) >= 2
    /\ IsDecimal(FieldOf(line, linter, 1))

\* the well-formed lines of a raw file, in file order
RECURSIVE SelectWellFormed(_, _)
SelectWellFormed(lines, linter) ==
    IF lines = <<>> THEN <<>>
    ELSE (IF WellFormed(Head(lines), linter) THEN <<Head(lines)>> ELSE <<>>)
         \o SelectWellFormed(Tail(lines), linter)

\* the lines of a text: the maximal newline-free stretches, but no empty
\* last line after a final newline
Newlines(c) == {i \in 1..Len(c) : c[i] = "\n"}
LineStartsOf(c) == {i \in 1..Len(c) : i = 1 \/ c[i - 1] = "\n"}
LinesOf(c) ==
    [n \in 1..Cardinality(LineStartsOf(c)) |->
        LET from == NthOf(LineStartsOf(c), n)
            ends == {i \in Newlines(c) : i >= from}
        IN SubSeq(c, from, IF ends = {} THEN Len(c) ELSE SetMin(ends) - 1)]

RawLines(linter) ==
    IF raw_dir[linter].exists THEN LinesOf(raw_dir[linter].content) ELSE <<>>

GoodLines(linter) == SelectWellFormed(RawLines(linter), linter)

Records(linter) == linter_data.linters[linter]

Converted == stats_pc = "done"

(***************************************************************************)
(* Claims about the stats parser.                                          *)
(***************************************************************************)
\* C1: for every raw file and every linter kind the parse completes and
\* returns exactly one record per line that has at least a count and a code
\* field with an integer count, in file order (the i-th record carries the
\* linter name and the count of the i-th such line, and for flake8 and ruff
\* its code); blank, short and non-integer lines contribute nothing.
C1_OneRecordPerWellFormedLine ==
    Converted =>
        \A k \in Linters :
            /\ Len(Records(k)) = Len(GoodLines(k))
            /\ \A i \in 1..Len(Records(k)) :
                   /\ i <= Len(GoodLines(k))
                   /\ Records(k)[i].linter = k
                   /\ Records(k)[i].count =
                          DecimalValue(FieldOf(GoodLines(k)[i], k, 1))
                   /\ k # "mypy" =>
                          Records(k)[i].code =
                              Flatten(FieldOf(GoodLines(k)[i], k, 2))

\* C1 witness: a converted file whose first line is malformed (not blank)
\* and whose second line is well-formed, and only the second gave a record.
C1_Witness ==
    /\ Converted
    /\ \E k \in Linters :
           /\ Len(RawLines(k)) = 2
           /\ NonBlank(RawLines(k)[1]) # {}
           /\ ~WellFormed(RawLines(k)[1], k)
           /\ WellFormed(RawLines(k)[2], k)
           /\ Len(Records(k)) = 1

\* the description the claim C2 expects of a well-formed line
RemainderDescription(line, linter) ==
    IF FieldCount(line, linter) > 2 THEN Flatten(RestOf(line, linter, 2)) ELSE "-"

\* C2: for flake8 and ruff alike the description of a record is the whole
\* remainder of its line after exactly two separator splits, separators in
\* it included, and `-` when the line has no third field.
C2_DescriptionIsRemainder ==
    Converted =>
        \A k \in {"flake8", "ruff"} :
            \A i \in 1..Len(Records(k)) :
                i <= Len(GoodLines(k)) =>
                    Records(k)[i].description =
                        RemainderDescription(GoodLines(k)[i], k)

\* C3: every mypy record has linter mypy, the integer count of its line, the
\* code that follows the count, and as description the entry of
\* MYPY_DESCRIPTIONS for that code or `-` when the table has none.
C3_MypyDescriptionFromTable ==
    Converted =>
        \A i \in 1..Len(Records("mypy")) :
            LET r == Records("mypy")[i] IN
            /\ i <= Len(GoodLines("mypy"))
            /\ r.linter = "mypy"
            /\ r.count = DecimalValue(FieldOf(GoodLines("mypy")[i], "mypy", 1))
            /\ r.code = Flatten(RestOf(GoodLines("mypy")[i], "mypy", 1))
            /\ r.code \in DOMAIN MYPY_DESCRIPTIONS =>
                   r.description = MYPY_DESCRIPTIONS[r.code]
            /\ r.code \notin DOMAIN MYPY_DESCRIPTIONS => r.description = "-"

\* C3 witness: a converted mypy file with a record whose code is in the
\* table and a record whose code is not.
C3_Witness ==
    /\ Converted
    /\ Len(Records("mypy")) = 2
    /\ Records("mypy")[1].code = "misc"
    /\ Records("mypy")[1].description = "Miscellaneous type error"
    /\ Records("mypy")[2].code \notin DOMAIN MYPY_DESCRIPTIONS
    /\ Records("mypy")[2].description = "-"

\* C4: in every converted dataset each linter's sequence holds at most one
\* record per code, whatever the raw files hold.
C4_UniqueCodePerLinter ==
    Converted =>
        \A k \in Linters :
            \A i, j \in 1..Len(Records(k)) :
                Records(k)[i].code = Records(k)[j].code => i = j

\* C5: every record the parser produces has a non-negative count.
C5_CountNonNegative ==
    Converted =>
        \A k \in Linters :
            \A i \in 1..Len(Records(k)) : Records(k)[i].count >= 0

(***************************************************************************)
(* Reading a rendered report: its sections and the rows of their tables.   *)
(***************************************************************************)
HeadingsOf(rep) == {i \in 1..Len(rep) : rep[i].kind = "h2"}
KindCount(rep, kind) == Cardinality({i \in 1..Len(rep) : rep[i].kind = kind})

\* the lines of the n-th section: from its heading up to the next heading
SectionOf(rep, n) ==
    LET H == HeadingsOf(rep)
    IN SubSeq(rep, NthOf(H, n),
              IF n < Cardinality(H) THEN NthOf(H, n + 1) - 1 ELSE Len(rep))

IsRow(line) == line.kind = "row"
RowsOf(lines) == SelectSeq(lines, IsRow)

\* the last line before position i that is not blank
LastTextBefore(rep, i) ==
    rep[SetMax({j \in 1..(i - 1) : rep[j].kind # "blank"})]

CombinedRendered == report_pc \in {"low_risk", "rendered"}
LowRiskRendered == report_pc = "rendered"

\* the dataset key of the n-th section of the combined report
CombinedKeys == <<"ruff", "flake8", "mypy">>

\* C6: the combined report has exactly three sections, headed Ruff, Flake8,
\* Mypy in that order; the sections are separated by the rule of 80 dashes;
\* the section of a linter without records holds the line
\* `No errors found.` and no table.
C6_CombinedReportSections ==
    CombinedRendered =>
        LET rep == combined_report
            H == HeadingsOf(rep)
        IN /\ Cardinality(H) = 3
           /\ rep[NthOf(H, 1)].text = "Ruff"
           /\ rep[NthOf(H, 2)].text = "Flake8"
           /\ rep[NthOf(H, 3)].text = "Mypy"
           /\ KindCount(rep, "rule") = 2
           /\ \A n \in 2..3 :
                  LET sep == LastTextBefore(rep, NthOf(H, n)) IN
                  /\ sep.kind = "rule"
                  /\ Len(sep.text) = 80
                  /\ \A j \in 1..Len(sep.text) : sep.text[j] = "-"
           /\ \A n \in 1..3 :
                  linter_data.linters[CombinedKeys[n]] = <<>> =>
                      /\ \E i \in 1..Len(SectionOf(rep, n)) :
                             /\ SectionOf(rep, n)[i].kind = "text"
                             /\ SectionOf(rep, n)[i].text = "No errors found."
                      /\ \A i \in 1..Len(SectionOf(rep, n)) :
                             SectionOf(rep, n)[i].kind \notin {"thead", "row"}

\* C6 witness: a rendered combined report of a dataset in which one linter
\* has records and another has none.
C6_Witness ==
    /\ CombinedRendered
    /\ linter_data.linters["flake8"] = <<>>
    /\ linter_data.linters["ruff"] # <<>>
    /\ linter_data.linters["mypy"] # <<>>
    /\ KindCount(combined_report, "row") = 2

\* where the i-th record of input belongs in the table: behind the records
\* of larger count and behind the earlier records of the same count
RankOf(input, i) ==
    1 + Cardinality({j \in 1..Len(input) : input[j].count > input[i].count})
      + Cardinality({j \in 1..(i - 1) : input[j].count = input[i].count})

\* rows is input sorted by count, largest first, equal counts in input order
StableDescending(rows, input) ==
    /\ Len(rows) = Len(input)
    /\ \A i \in 1..(Len(rows) - 1) : rows[i].count >= rows[i + 1].count
    /\ \A i \in 1..Len(input) : rows[RankOf(input, i)] = input[i]

\* the records shown by the rows of a table of the combined report and of
\* the low risk report
CombinedRowRecords(lines) ==
    [i \in 1..Len(RowsOf(lines)) |->
        [linter |-> RowsOf(lines)[i].cells[1], code |-> RowsOf(lines)[i].cells[2],
         description |-> RowsOf(lines)[i].cells[3],
         count |-> RowsOf(lines)[i].cells[4]]]

LowRiskRowRecords(lines) ==
    [i \in 1..Len(RowsOf(lines)) |->
        [linter |-> RowsOf(lines)[i].cells[3], code |-> RowsOf(lines)[i].cells[1],
         description |-> RowsOf(lines)[i].cells[2],
         count |-> RowsOf(lines)[i].cells[4]]]

\* the pattern set of the category with the given heading
PatternSet(name) ==
    UNION {{LOW_RISK_FIX_CATEGORIES[c].patterns[i] :
                i \in 1..Len(LOW_RISK_FIX_CATEGORIES[c].patterns)} :
           c \in {d \in 1..Len(LOW_RISK_FIX_CATEGORIES) :
                      LOW_RISK_FIX_CATEGORIES[d].name = name}}

\* the ruff records, then the flake8 records, whose code is in the set
LowRiskInput(patterns) ==
    LET Matches(r) == r.code \in patterns
    IN SelectSeq(linter_data.linters["ruff"], Matches)
       \o SelectSeq(linter_data.linters["flake8"], Matches)

\* C7: in every table of the combined report and of the low risk report the
\* rows are in non-increasing order of count, and rows of equal count keep
\* the relative order they have in the input sequence.
C7_RowsSortedStable ==
    /\ CombinedRendered =>
           \A n \in 1..Cardinality(HeadingsOf(combined_report)) :
               StableDescending(
                   CombinedRowRecords(SectionOf(combined_report, n)),
                   linter_data.linters[CombinedKeys[n]])
    /\ LowRiskRendered =>
           \A n \in 1..Cardinality(HeadingsOf(low_risk_report)) :
               StableDescending(
                   LowRiskRowRecords(SectionOf(low_risk_report, n)),
                   LowRiskInput(PatternSet(SectionOf(low_risk_report, n)[1].text)))

\* C7 witness: both reports rendered for a dataset with the E203 records
\* ruff 1, ruff 2, flake8 1 (counts): the ruff table must be reordered, and
\* the Formatting/Style table holds a tie of the first ruff record with the
\* flake8 record behind the record of count 2.
C7_Witness ==
    /\ LowRiskRendered
    /\ LET ruff == linter_data.linters["ruff"]
           flake8 == linter_data.linters["flake8"]
       IN /\ Len(ruff) = 2 /\ Len(flake8) = 1
          /\ ruff[1].code = "E203" /\ ruff[1].count = 1
          /\ ruff[2].code = "E203" /\ ruff[2].count = 2
          /\ flake8[1].code = "E203" /\ flake8[1].count = 1
    /\ KindCount(low_risk_report, "row") = 3
    /\ RowsOf(low_risk_report)[2].cells[3] = "ruff"
    /\ RowsOf(low_risk_report)[3].cells[3] = "flake8"
    /\ KindCount(combined_report, "row") = 3

CategoryNames ==
    {LOW_RISK_FIX_CATEGORIES[c].name : c \in 1..Len(LOW_RISK_FIX_CATEGORIES)}

\* C8: in the low risk report every row's code is in the pattern set of the
\* category it is listed under, no row comes from the mypy sequence, and a
\* category that no ruff or flake8 record matches has no heading and no
\* table.
C8_LowRiskRowsFiltered ==
    LowRiskRendered =>
        LET rep == low_risk_report
            H == HeadingsOf(rep)
        IN /\ \A n \in 1..Cardinality(H) :
                  /\ SectionOf(rep, n)[1].text \in CategoryNames
                  /\ \A i \in 1..Len(RowsOf(SectionOf(rep, n))) :
                         /\ RowsOf(SectionOf(rep, n))[i].cells[1]
                                \in PatternSet(SectionOf(rep, n)[1].text)
                         /\ RowsOf(SectionOf(rep, n))[i].cells[3] # "mypy"
           /\ \A i \in 1..Len(rep) :
                  rep[i].kind \in {"row", "thead"} => \E h \in H : h < i
           /\ KindCount(rep, "thead") = Cardinality(H)
           /\ \A name \in CategoryNames :
                  LowRiskInput(PatternSet(name)) = <<>> =>
                      \A h \in H : rep[h].text # name

\* C8 witness: a rendered low risk report of a dataset whose mypy sequence
\* holds a low risk code, whose ruff sequence holds one too, and in which
\* some category has no record.
C8_Witness ==
    /\ LowRiskRendered
    /\ \E i \in 1..Len(linter_data.linters["mypy"]) :
           linter_data.linters["mypy"][i].code = "E203"
    /\ \E i \in 1..Len(linter_data.linters["ruff"]) :
           linter_data.linters["ruff"][i].code = "SIM108"
    /\ LowRiskInput(PatternSet("Dead/Commented Code")) = <<>>
    /\ KindCount(low_risk_report, "row") = 1

(***************************************************************************)
(* Claims about the tool locator.                                          *)
(***************************************************************************)
LocatorCalled == loc_pc \notin {"idle", "validate"}
LocatorEnded == loc_pc \in {"returned", "raised"}

ConfigHolds(atom) ==
    /\ project.config.exists
    /\ \E i \in 1..Len(project.config.lines) :
           \E j \in 1..Len(project.config.lines[i]) :
               project.config.lines[i][j] = atom

\* C9: for a project path without a .git directory the locator raises the
\* not-a-git-repository error as its first and only step, whatever config
\* file, cache database and executables exist; it returns neither not-found
\* nor a path.
C9_NonGitAlwaysRaises ==
    (LocatorCalled /\ project.git # "dir") =>
        /\ loc_pc = "raised"
        /\ tool_result.kind = "raise"
        /\ loc_trace = <<"is_git_repository">>

\* C9 witness: the locator has raised for a project whose .git is a plain
\* file while the config file, the database and the executable all exist.
C9_Witness ==
    /\ loc_pc = "raised"
    /\ project.git = "file"
    /\ project.config.exists
    /\ project.db.exists /\ project.db.rows # <<>>
    /\ project.disk # {}

\* C10: for a git project the locator never raises; a missing config file,
\* version key, rev key, database, matching row or executable each give
\* not-found; a returned path is <repo_path>/py_env-<python_version>/bin/
\* <tool_name> of the values looked up, the repo path being that of a row of
\* the database for the pattern and revision, and the path exists on disk.
C10_GitProjectNeverRaises ==
    project.git = "dir" =>
        /\ loc_pc # "raised"
        /\ tool_result.kind # "raise"
        /\ LocatorEnded =>
               /\ tool_result.kind \in {"none", "path"}
               /\ ~project.config.exists => tool_result.kind = "none"
               /\ ~ConfigHolds("default_language_version:") =>
                      tool_result.kind = "none"
               /\ ~ConfigHolds("python:") => tool_result.kind = "none"
               /\ ~ConfigHolds("rev:") => tool_result.kind = "none"
               /\ ~project.db.exists => tool_result.kind = "none"
               /\ (\A i \in 1..Len(project.db.rows) :
                       \/ ~contains(project.db.rows[i].repo,
                                    <<tool_args.repo_pattern[
                                          Len(tool_args.repo_pattern)]>>)
                       \/ <<project.db.rows[i].ref>> # tool_version)
                      => tool_result.kind = "none"
               /\ tool_result.kind = "path" =>
                      /\ tool_result.value \in project.disk
                      /\ \E i \in 1..Len(project.db.rows) :
                             /\ repo_path = <<project.db.rows[i].path>>
                             /\ <<project.db.rows[i].ref>> = tool_version
                      /\ \E v \in {"python3.12", "python3.11"} :
                             /\ python_version = <<v>>
                             /\ tool_result.value =
                                    repo_path[1] \o "/py_env-" \o v \o "/bin/"
                                    \o tool_args.tool_name
               /\ (tool_result.kind = "none" /\ Len(loc_trace) = 5) =>
                      \A r \in {"/cache/repo1", "/cache/repo2", "/cache/repo3"} :
                          repo_path = <<r>> =>
                              (r \o "/py_env-" \o python_version[1] \o "/bin/"
                               \o tool_args.tool_name) \notin project.disk

\* C10 witness: the locator returned a path for a git project.
C10_Witness ==
    /\ loc_pc = "returned"
    /\ project.git = "dir"
    /\ tool_result.kind = "path"
    /\ tool_result.value = "/cache/repo3/py_env-python3.11/bin/ruff"

\* a second witness of C10's other case: every lookup succeeded and the
\* executable is not on disk, so the result is not-found
C10_WitnessMissingExecutable ==
    /\ loc_pc = "returned"
    /\ project.git = "dir"
    /\ Len(loc_trace) = 5
    /\ tool_result.kind = "none"

(***************************************************************************)
(* What a config file declares, read off its lines by position.            *)
(***************************************************************************)
ConfigLineCount == Len(project.config.lines)

\* the lines of the config file holding the atoms of `pattern` in a row
LinesHolding(pattern) ==
    {i \in 1..ConfigLineCount :
        \E a \in 1..Len(project.config.lines[i]) :
            /\ a + Len(pattern) - 1 <= Len(project.config.lines[i])
            /\ \A b \in 1..Len(pattern) :
                   project.config.lines[i][a + b - 1] = pattern[b]}

\* the value a line gives to `key`: the text behind the key, blanks trimmed
DeclaredValue(line, key) ==
    LET at == SetMin({a \in 1..Len(line) : line[a] = key})
    IN Flatten(Trimmed(SubSeq(line, at + 1, Len(line))))

\* the value of `key` on the first of the n lines after line k that hold
\* the key, as <<value>>, or <<>> when none of them does
DeclaredAfter(k, n, key) ==
    LET holding == {i \in LinesHolding(<<key>>) : k < i /\ i <= k + n}
    IN IF holding = {} THEN <<>>
       ELSE <<DeclaredValue(project.config.lines[SetMin(holding)], key)>>

PythonVersionRead == Len(loc_trace) >= 2
ToolVersionRead == Len(loc_trace) >= 3

\* C11: for a git project whose config holds the default_language_version
\* key on one line, the python version the locator extracts is the value of
\* the first `python:` entry on the two lines after the key (an entry on
\* the second line is found), and it is not-found only when neither of the
\* two lines holds one.
C11_PythonVersionWithinTwoLines ==
    (PythonVersionRead /\ project.config.exists
     /\ Cardinality(LinesHolding(<<"default_language_version:">>)) = 1) =>
        python_version =
            DeclaredAfter(SetMin(LinesHolding(<<"default_language_version:">>)),
                          2, "python:")

\* C12: the revision the locator extracts for its repo_pattern is the value
\* of the first `rev:` key on the three lines after the FIRST config line
\* holding the pattern; a `rev:` only in the context of a later occurrence
\* is not returned, and without a `rev:` on those three lines (or without
\* any line holding the pattern) the result is not-found.
C12_RevisionOfFirstOccurrence ==
    (ToolVersionRead /\ project.config.exists) =>
        tool_version =
            IF LinesHolding(tool_args.repo_pattern) = {} THEN <<>>
            ELSE DeclaredAfter(SetMin(LinesHolding(tool_args.repo_pattern)),
                               3, "rev:")

(***************************************************************************)
(* Claims about the report generator's main.                               *)
(***************************************************************************)
OutputEntry(n) == main_fs.out_dir.entries[n]
OutputEntry0(n) == main_fs0.out_dir.entries[n]
StepsStarted == {main_trace[i] : i \in 1..Len(main_trace)}
LastStep == main_trace[Len(main_trace)]

\* C13: in a run that passed the validation, when the data collection is
\* about to start the output directory exists as a directory (empty if it
\* was created by the run) and no top-level entry of it is a regular file;
\* from the end of the cleaning on, no regular file from before the run is
\* left at its top level and every subdirectory is as it was before the run,
\* files inside included.
C13_OutputDirClearedBeforeCollection ==
    /\ main_pc = "collect" =>
           /\ main_fs.out_dir.kind = "dir"
           /\ \A n \in EntryNames : ~is_file(OutputEntry(n))
           /\ main_fs0.out_dir.kind = "absent" =>
                  \A n \in EntryNames : OutputEntry(n).kind = "none"
    /\ "run_data_collection" \in StepsStarted => main_fs0.project_exists
    /\ (main_pc \notin {"idle", "validate", "setup", "clean"}
        /\ "clean_output_directory" \in StepsStarted) =>
           /\ main_fs.out_dir.kind = "dir"
           /\ \A n \in EntryNames :
                  /\ ~(OutputEntry(n).kind = "file" /\ OutputEntry(n).origin = "old")
                  /\ (main_fs0.out_dir.kind = "dir" /\ OutputEntry0(n).kind = "dir")
                         => OutputEntry(n) = OutputEntry0(n)

\* C13 witness: the data collection is about to start on an output
\* directory that held a raw stats file, a JSON file, both reports and a
\* subdirectory with a report in it: the four files are gone, the
\* subdirectory still holds its file.
C13_Witness ==
    /\ main_pc = "collect"
    /\ main_fs0.out_dir.kind = "dir"
    /\ \A n \in EntryNames \ {SubdirName} : is_file(OutputEntry0(n))
    /\ OutputEntry0(RawStatsName).kind = "link"
    /\ OutputEntry0(SubdirName) = OldDir({CombinedReportName})
    /\ \A n \in EntryNames \ {SubdirName} : OutputEntry(n).kind = "none"
    /\ OutputEntry(SubdirName).inner = {CombinedReportName}

\* the data-collection step has been run and failed: the script is missing,
\* it exited non-zero, or linter_stats.json is not there after it
CollectionFailed ==
    /\ "run_data_collection" \in StepsStarted
    /\ \/ main_fs.script = "missing"
       \/ main_fs.returncode = <<1>>
       \/ OutputEntry(JsonName).kind = "none"

IsReportFile(n) == OutputEntry(n).kind \in {"file", "link"}

\* C14: once the data-collection step has failed the run is over with exit
\* code 1, the collection is the last step that started, nothing was
\* rendered and the output directory holds neither markdown report; and
\* exit code 0 is reached only with both reports written by the run, each
\* holding what was rendered.
C14_CollectionFailureAborts ==
    /\ CollectionFailed =>
           /\ main_pc = "exited"
           /\ exit_code = <<1>>
           /\ LastStep = "run_data_collection"
           /\ combined_report = <<>> /\ low_risk_report = <<>>
           /\ ~IsReportFile(CombinedReportName)
           /\ ~IsReportFile(LowRiskReportName)
    /\ exit_code = <<0>> =>
           /\ main_pc = "exited"
           /\ ~CollectionFailed
           /\ OutputEntry(CombinedReportName).kind = "file"
           /\ OutputEntry(CombinedReportName).origin = "main"
           /\ OutputEntry(CombinedReportName).body = combined_report
           /\ OutputEntry(LowRiskReportName).kind = "file"
           /\ OutputEntry(LowRiskReportName).origin = "main"
           /\ OutputEntry(LowRiskReportName).body = low_risk_report
           /\ SubSeq(main_trace, Len(main_trace) - 1, Len(main_trace)) =
                  <<"write_report", "write_report">>

\* C14 witness: the script ran on a directory that held both reports,
\* wrote linter_stats.json and exited non-zero; the run ended with exit
\* code 1.
C14_Witness ==
    /\ CollectionFailed
    /\ main_fs.script = "present"
    /\ main_fs.returncode = <<1>>
    /\ OutputEntry(JsonName).kind = "file"
    /\ OutputEntry(JsonName).body # <<>>
    /\ OutputEntry0(CombinedReportName).kind = "file"
    /\ OutputEntry0(LowRiskReportName).kind = "file"
    /\ exit_code = <<1>>

\* a second case of C14: a run that ended with exit code 0
C14_WitnessSuccess ==
    /\ exit_code = <<0>>
    /\ low_risk_report # <<>>

\* C16: when the project path does not exist, main ends at the validation
\* with exit code 1: no pipeline step starts, the disk (output directory
\* included, whether absent, a file or a directory with files) stays as it
\* was, the script is not run and nothing is rendered or written.
C16_MissingProjectExitsFirst ==
    (~main_fs0.project_exists /\ main_pc \notin {"idle", "validate"}) =>
        /\ main_pc = "exited"
        /\ exit_code = <<1>>
        /\ main_trace = <<>>
        /\ main_fs = main_fs0
        /\ main_fs.returncode = <<>>
        /\ combined_report = <<>> /\ low_risk_report = <<>>

\* C16 witness: main exited with code 1 for a missing project path while
\* the script is present and the output directory holds an old JSON file.
C16_Witness ==
    /\ main_pc = "exited"
    /\ exit_code = <<1>>
    /\ ~main_fs0.project_exists
    /\ main_fs.script = "present"
    /\ main_fs.out_dir.kind = "dir"
    /\ OutputEntry(JsonName) = OldFile

(***************************************************************************)
(* Claims about the bucketing of the low risk report.                      *)
(***************************************************************************)
AllPatterns == UNION {PatternSet(name) : name \in CategoryNames}

\* the place of a category in the declaration of the table
DeclarationIndex(name) ==
    CHOOSE c \in 1..Len(LOW_RISK_FIX_CATEGORIES) :
        LOW_RISK_FIX_CATEGORIES[c].name = name

Occurrences(s, r) == Cardinality({i \in 1..Len(s) : s[i] = r})

\* C15: the pattern sets are pairwise disjoint; every record of the ruff
\* and flake8 sequences whose code is in a pattern set has as many rows in
\* the low risk report as it occurs in the input, all in the one section of
\* its category; a record whose code is in no pattern set has no row; and
\* the sections follow the declaration order of the categories.
C15_BucketingCompleteOrdered ==
    LowRiskRendered =>
        LET rep == low_risk_report
            H == HeadingsOf(rep)
            rows == LowRiskRowRecords(rep)
            input == linter_data.linters["ruff"] \o linter_data.linters["flake8"]
        IN /\ \A a, b \in CategoryNames :
                  a # b => PatternSet(a) \cap PatternSet(b) = {}
           /\ \A i \in 1..Len(input) :
                  IF input[i].code \in AllPatterns
                  THEN /\ Occurrences(rows, input[i]) = Occurrences(input, input[i])
                       /\ \A n \in 1..Cardinality(H) :
                              Occurrences(LowRiskRowRecords(SectionOf(rep, n)),
                                          input[i]) > 0
                              => input[i].code \in PatternSet(rep[NthOf(H, n)].text)
                  ELSE Occurrences(rows, input[i]) = 0
           /\ Len(rows) =
                  Cardinality({i \in 1..Len(input) : input[i].code \in AllPatterns})
           /\ \A n \in 1..(Cardinality(H) - 1) :
                  DeclarationIndex(rep[NthOf(H, n)].text)
                      < DeclarationIndex(rep[NthOf(H, n + 1)].text)

\* C15 witness: the ruff sequence holds a Simple Refactoring code and then
\* a code of no category, the flake8 sequence a Formatting/Style code; the
\* report lists the flake8 record first, the ruff record second and nothing
\* else.
C15_Witness ==
    /\ LowRiskRendered
    /\ Len(linter_data.linters["ruff"]) = 2
    /\ linter_data.linters["ruff"][1].code = "SIM108"
    /\ linter_data.linters["ruff"][2].code = "misc"
    /\ Len(linter_data.linters["flake8"]) = 1
    /\ linter_data.linters["flake8"][1].code = "E203"
    /\ KindCount(low_risk_report, "row") = 2
    /\ RowsOf(low_risk_report)[1].cells[3] = "flake8"
    /\ RowsOf(low_risk_report)[2].cells[3] = "ruff"

====
